---- MODULE Spec2Model ----
(***************************************************************************)
(* The client-side event deduplication gate of the Sentry demo UI.         *)
(*                                                                         *)
(* The gate sits in front of the reporting transport.  It fingerprints an  *)
(* outgoing event, keeps a per-day occurrence counter in localStorage and  *)
(* forwards or drops the event.  The repository holds several revisions    *)
(* of the gate; each revision whose behaviour differs is modelled as its   *)
(* own operator and its own specification:                                 *)
(*                                                                         *)
(*   Spec   the per-fingerprint beforeSend gate  (src/unnamed/part_007)    *)
(*   SpecA  the per-fingerprint event processor  (src/ui/src/Sentry.js     *)
(*          1-129), which also counts the "unknown" fingerprint            *)
(*   SpecD  the global-counter event processor with the page-load pass     *)
(*          (src/ui/src/Sentry.js 305-434)                                 *)
(*   SpecG  the first, global-counter event processor (src/unnamed/        *)
(*          part_005 1-118) with the 1, 10, 20, ... rule                   *)
(*   SpecR  SpecG with the test helper testDedupe.resetCount it exports    *)
(*   SpecI  the beforeSend gate of src/ui/src/Sentry.js 130-304, whose     *)
(*          initSentry sends a test error after every page load           *)
(*                                                                         *)
(* and the per-fingerprint gate of part_007 is also put into harsher       *)
(* environments:                                                           *)
(*                                                                         *)
(*   SpecC  a counter can be overwritten from outside the gate             *)
(*   SpecW  localStorage.setItem can throw                                 *)
(*   SpecT  two pages of the origin run the gate on the shared storage     *)
(*   SpecM  the clock runs while one call of the gate is under way         *)
(*   SpecF  the gate is handed events of every shape, malformed included   *)
(*                                                                         *)
(* The array-memory calculator is a state machine of its own:              *)
(*                                                                         *)
(*   SpecP  the MemoryCalculator of src/ui/src/App.jsx                     *)
(*   SpecP2 the MemoryCalculator of src/unnamed/part_002                   *)
(*                                                                         *)
(* JavaScript strings are sequences of one-character strings, so that      *)
(* toString, parseInt, toLowerCase and replace are computed, not assumed.  *)
(* An optional value (undefined / null) is the empty sequence <<>>, a      *)
(* present value x is <<x>>.                                               *)
(***************************************************************************)
EXTENDS Integers, Sequences, FiniteSets, TLC

----------------------------------------------------------------------------
(* JavaScript numbers: the integers and NaN.                               *)

Num(v) == [nan |-> FALSE, v |-> v]

NaN == [nan |-> TRUE, v |-> 0]

\* a + b
Plus(a, b) == IF a.nan \/ b.nan THEN NaN ELSE Num(a.v + b.v)

\* a - b
Minus(a, b) == IF a.nan \/ b.nan THEN NaN ELSE Num(a.v - b.v)

\* a * b
Times(a, b) == IF a.nan \/ b.nan THEN NaN ELSE Num(a.v * b.v)

\* a % b for b > 0: the remainder takes the sign of the dividend
Rem(a, b) ==
    IF a.nan \/ b.nan THEN NaN
    ELSE IF a.v >= 0 THEN Num(a.v % b.v) ELSE Num(-((-a.v) % b.v))

\* a === b on numbers: NaN equals nothing, itself included
StrictEq(a, b) == ~a.nan /\ ~b.nan /\ a.v = b.v

\* Math.floor(a / b) for b > 0
MathFloorDiv(a, b) == IF a.nan \/ b.nan THEN NaN ELSE Num(a.v \div b.v)

\* Math.ceil(a / b) for b > 0
MathCeilDiv(a, b) == IF a.nan \/ b.nan THEN NaN ELSE Num(-((-a.v) \div b.v))

----------------------------------------------------------------------------
(* JavaScript strings.                                                     *)

DigitChars == <<"0", "1", "2", "3", "4", "5", "6", "7", "8", "9">>

IsDigit(c) == \E i \in 1..Len(DigitChars) : DigitChars[i] = c

DigitValue(c) == (CHOOSE i \in 1..Len(DigitChars) : DigitChars[i] = c) - 1

\* the characters matched by \s that the model's strings use
IsSpace(c) == c \in {" ", "\t", "\n"}

UpperChars == <<"A", "B", "C", "D", "E", "F", "G", "H", "I", "J", "K", "L", "M",
                "N", "O", "P", "Q", "R", "S", "T", "U", "V", "W", "X", "Y", "Z">>

LowerChars == <<"a", "b", "c", "d", "e", "f", "g", "h", "i", "j", "k", "l", "m",
                "n", "o", "p", "q", "r", "s", "t", "u", "v", "w", "x", "y", "z">>

LowerChar(c) ==
    IF \E i \in 1..Len(UpperChars) : UpperChars[i] = c
    THEN LowerChars[CHOOSE i \in 1..Len(UpperChars) : UpperChars[i] = c]
    ELSE c

\* String.prototype.toLowerCase
toLowerCase(s) == [i \in 1..Len(s) |-> LowerChar(s[i])]

\* String.prototype.replace(/\s+/g, with): every maximal run of whitespace
\* becomes one copy of `with`
RECURSIVE replaceWhitespaceRuns(_, _)
replaceWhitespaceRuns(s, with) ==
    IF s = <<>> THEN <<>>
    ELSE IF IsSpace(Head(s))
         THEN IF Len(s) > 1 /\ IsSpace(s[2])
              THEN replaceWhitespaceRuns(Tail(s), with)
              ELSE with \o replaceWhitespaceRuns(Tail(s), with)
         ELSE <<Head(s)>> \o replaceWhitespaceRuns(Tail(s), with)

RECURSIVE NatToString(_)
NatToString(n) ==
    IF n < 10 THEN <<DigitChars[n + 1]>>
    ELSE NatToString(n \div 10) \o <<DigitChars[(n % 10) + 1]>>

\* Number.prototype.toString, and the conversion of a number inside a template
toString(x) ==
    IF x.nan THEN <<"N", "a", "N">>
    ELSE IF x.v < 0 THEN <<"-">> \o NatToString(-x.v)
    ELSE NatToString(x.v)

RECURSIVE SkipSpaces(_)
SkipSpaces(s) ==
    IF s # <<>> /\ IsSpace(Head(s)) THEN SkipSpaces(Tail(s)) ELSE s

RECURSIVE LeadingDigits(_)
LeadingDigits(s) ==
    IF s # <<>> /\ IsDigit(Head(s)) THEN <<Head(s)>> \o LeadingDigits(Tail(s)) ELSE <<>>

RECURSIVE DigitsValue(_, _)
DigitsValue(ds, acc) ==
    IF ds = <<>> THEN acc ELSE DigitsValue(Tail(ds), acc * 10 + DigitValue(Head(ds)))

\* parseInt(s, 10): leading whitespace, an optional sign, then the longest run
\* of decimal digits; NaN when there is no digit
parseInt(s) ==
    LET t == SkipSpaces(s)
        neg == t # <<>> /\ Head(t) = "-"
        u == IF t # <<>> /\ Head(t) \in {"-", "+"} THEN Tail(t) ELSE t
        ds == LeadingDigits(u)
    IN  IF ds = <<>> THEN NaN
        ELSE IF neg THEN Num(-DigitsValue(ds, 0)) ELSE Num(DigitsValue(ds, 0))

\* String.prototype.padStart(2, "0") of a decimal number, as toISOString pads
Pad2(n) == IF n < 10 THEN <<"0">> \o NatToString(n) ELSE NatToString(n)

----------------------------------------------------------------------------
(* The Date object.  A Date is an instant `utc`, counted in half days from  *)
(* 2024-12-30T00:00Z, read in a time zone `tz` half days east of UTC.       *)

\* the civil date of day number i (day 0 is 2024-12-30); month is 0-based as
\* Date.prototype.getMonth returns it
CivilFromDays(i) ==
    IF i <= 1 THEN [year |-> 2024, month |-> 11, date |-> 30 + i]
    ELSE [year |-> 2025, month |-> 0, date |-> i - 1]

LocalDay(d) == (d.utc + d.tz) \div 2

UtcDay(d) == d.utc \div 2

getFullYear(d) == Num(CivilFromDays(LocalDay(d)).year)

getMonth(d) == Num(CivilFromDays(LocalDay(d)).month)

getDate(d) == Num(CivilFromDays(LocalDay(d)).date)

\* new Date().toISOString().split('T')[0]: the zero-padded UTC date
toISOStringDate(d) ==
    LET c == CivilFromDays(UtcDay(d))
    IN  NatToString(c.year) \o <<"-">> \o Pad2(c.month + 1) \o <<"-">> \o Pad2(c.date)

----------------------------------------------------------------------------
(* localStorage: a function from the keys present to their string values.  *)

\* localStorage.getItem(key): null (<<>>) when the key is absent
getItem(ls, key) == IF key \in DOMAIN ls THEN <<ls[key]>> ELSE <<>>

\* localStorage.setItem(key, value)
setItem(ls, key, value) ==
    [k \in (DOMAIN ls) \cup {key} |-> IF k = key THEN value ELSE ls[k]]

\* localStorage.removeItem(key)
removeItem(ls, key) == [k \in (DOMAIN ls) \ {key} |-> ls[k]]

EmptyStorage == [k \in {} |-> <<>>]

----------------------------------------------------------------------------
(* Events.                                                                 *)
(*   exception : optional [values : optional sequence of                   *)
(*                            [type : optional string,                     *)
(*                             value : optional string]]                   *)
(*   message   : optional string                                           *)
(*   extra     : optional [other : optional string,                        *)
(*                         deduplication : optional metadata]              *)

\* x || '' for an optional string x
OrEmptyString(x) == IF x = <<>> \/ x[1] = <<>> THEN <<>> ELSE x[1]

\* the truthiness of an optional string: present and not empty
Truthy(x) == x # <<>> /\ x[1] # <<>>

\* event.exception?.values
ExceptionValues(event) ==
    IF event.exception = <<>> THEN <<>> ELSE event.exception[1].values

\* event.exception?.values?.[0]
FirstException(event) ==
    LET vs == ExceptionValues(event)
    IN  IF vs = <<>> \/ vs[1] = <<>> THEN <<>> ELSE <<vs[1][1]>>

\* event.extra = event.extra || {}
ExtraOrEmpty(event) ==
    IF event.extra = <<>> THEN [other |-> <<>>, deduplication |-> <<>>]
    ELSE event.extra[1]

Unknown == <<"u", "n", "k", "n", "o", "w", "n">>

KeyPrefix == <<"s", "e", "n", "t", "r", "y", "-", "d", "e", "d", "u", "p", "-">>

MessagePrefix == <<"m", "e", "s", "s", "a", "g", "e", ":">>

----------------------------------------------------------------------------
(* The per-fingerprint gate (src/unnamed/part_007).  Every function takes  *)
(* the storage `ls` and the Date `d` that `new Date()` returns explicitly; *)
(* a function that writes returns the storage it leaves.                   *)

\* a slip: the key is built from the UTC date, as toISOString gives it
getDailyKey_Utc(d, fingerprint) ==
    LET c == CivilFromDays(UtcDay(d))
    IN  KeyPrefix \o NatToString(c.year) \o <<"-">> \o NatToString(c.month + 1)
                  \o <<"-">> \o NatToString(c.date) \o <<"-">> \o fingerprint

\* `sentry-dedup-${year}-${month + 1}-${date}-${fingerprint}`
getDailyKey(d, fingerprint) ==
    KeyPrefix \o toString(getFullYear(d)) \o <<"-">>
              \o toString(Plus(getMonth(d), Num(1))) \o <<"-">>
              \o toString(getDate(d)) \o <<"-">> \o fingerprint

\* data ? parseInt(data, 10) : 0
getErrorCount(ls, d, fingerprint) ==
    LET key == getDailyKey(d, fingerprint)
        data == getItem(ls, key)
    IN  IF Truthy(data) THEN parseInt(data[1]) ELSE Num(0)

\* a slip: the counter wraps, so that every tenth occurrence starts it again
incrementErrorCount_Wrap(ls, d, fingerprint) ==
    LET key == getDailyKey(d, fingerprint)
        count == Plus(Rem(getErrorCount(ls, d, fingerprint), Num(10)), Num(1))
    IN  [ls |-> setItem(ls, key, toString(count)), count |-> count]

\* a slip: the incremented count is persisted only when it is one that reports
incrementErrorCount_PersistReported(ls, d, fingerprint) ==
    LET key == getDailyKey(d, fingerprint)
        count == Plus(getErrorCount(ls, d, fingerprint), Num(1))
    IN  [ls |-> IF StrictEq(Rem(Minus(count, Num(1)), Num(10)), Num(0))
                THEN setItem(ls, key, toString(count)) ELSE ls,
         count |-> count]

\* a slip: the write starts from an empty store, the other counters are lost
incrementErrorCount_Purge(ls, d, fingerprint) ==
    LET key == getDailyKey(d, fingerprint)
        count == Plus(getErrorCount(ls, d, fingerprint), Num(1))
    IN  [ls |-> setItem(EmptyStorage, key, toString(count)), count |-> count]

\* a slip: the count read is stored, not the count incremented
incrementErrorCount_StoreOld(ls, d, fingerprint) ==
    LET key == getDailyKey(d, fingerprint)
        count == Plus(getErrorCount(ls, d, fingerprint), Num(1))
    IN  [ls |-> setItem(ls, key, toString(getErrorCount(ls, d, fingerprint))),
         count |-> count]

incrementErrorCount(ls, d, fingerprint) ==
    LET key == getDailyKey(d, fingerprint)
        count == Plus(getErrorCount(ls, d, fingerprint), Num(1))
    IN  [ls |-> setItem(ls, key, toString(count)), count |-> count]

\* a slip: the rule of the first revision, count === 1 || count % 10 === 0
shouldReportError_Every10th(ls, d, fingerprint) ==
    LET inc == incrementErrorCount(ls, d, fingerprint)
    IN  [ls |-> inc.ls,
         report |-> \/ StrictEq(inc.count, Num(1))
                    \/ StrictEq(Rem(inc.count, Num(10)), Num(0))]

\* a slip: only the first occurrence of the day is reported
shouldReportError_FirstOnly(ls, d, fingerprint) ==
    LET inc == incrementErrorCount(ls, d, fingerprint)
    IN  [ls |-> inc.ls, report |-> StrictEq(inc.count, Num(1))]

\* count === 1 || (count - 1) % 10 === 0
shouldReportError(ls, d, fingerprint) ==
    LET inc == incrementErrorCount(ls, d, fingerprint)
    IN  [ls |-> inc.ls,
         report |-> \/ StrictEq(inc.count, Num(1))
                    \/ StrictEq(Rem(Minus(inc.count, Num(1)), Num(10)), Num(0))]

\* a slip: event.exception.values[0] without the optional chaining, a
\* TypeError for an event without exception or without exception.values
getErrorFingerprint_Unchained(event) ==
    IF ExceptionValues(event) = <<>> THEN <<"TypeError">>
    ELSE LET exception == FirstException(event)
         IN  IF exception # <<>>
             THEN LET message == OrEmptyString(exception[1].value)
                      type == OrEmptyString(exception[1].type)
                  IN  replaceWhitespaceRuns(toLowerCase(type \o <<":">> \o message), <<"_">>)
             ELSE IF Truthy(event.message)
             THEN replaceWhitespaceRuns(toLowerCase(MessagePrefix \o event.message[1]), <<"_">>)
             ELSE Unknown

\* a slip: the message is looked at before the exception
getErrorFingerprint_MessageFirst(event) ==
    LET exception == FirstException(event)
    IN  IF Truthy(event.message)
        THEN replaceWhitespaceRuns(toLowerCase(MessagePrefix \o event.message[1]), <<"_">>)
        ELSE IF exception # <<>>
        THEN LET message == OrEmptyString(exception[1].value)
                 type == OrEmptyString(exception[1].type)
             IN  replaceWhitespaceRuns(toLowerCase(type \o <<":">> \o message), <<"_">>)
        ELSE Unknown

getErrorFingerprint(event) ==
    LET exception == FirstException(event)
    IN  IF exception # <<>>
        THEN LET message == OrEmptyString(exception[1].value)
                 type == OrEmptyString(exception[1].type)
             IN  replaceWhitespaceRuns(toLowerCase(type \o <<":">> \o message), <<"_">>)
        ELSE IF Truthy(event.message)
        THEN replaceWhitespaceRuns(toLowerCase(MessagePrefix \o event.message[1]), <<"_">>)
        ELSE Unknown

\* a slip: the next report is predicted one occurrence early
nextReportAt_OffByOne(currentCount) ==
    Plus(Times(MathFloorDiv(Minus(currentCount, Num(1)), Num(10)), Num(10)), Num(10))

\* Math.floor((currentCount - 1) / 10) * 10 + 11
nextReportAt(currentCount) ==
    Plus(Times(MathFloorDiv(Minus(currentCount, Num(1)), Num(10)), Num(10)), Num(11))

\* the deduplication entry that beforeSend writes into event.extra
deduplication(d, fingerprint, currentCount) ==
    [day |-> toISOStringDate(d),
     fingerprint |-> <<fingerprint>>,
     count |-> currentCount,
     nextReportAt |-> nextReportAt(currentCount),
     type |-> <<>>]

\* what a gate returns: the storage it leaves, the event to send (<<>> is null:
\* drop the event), what it logged about the count, if anything, and whether
\* it left by an exception instead of returning
Pass(ls, event) == [ls |-> ls, result |-> <<event>>, log |-> <<>>, threw |-> FALSE]

Drop(ls, currentCount, next) ==
    [ls |-> ls, result |-> <<>>,
     log |-> <<[kind |-> "skip", count |-> currentCount, nextReportAt |-> next]>>,
     threw |-> FALSE]

\* a slip: event.extra = { deduplication: ... } without the spread of the
\* extra context the event came with
Report_ReplaceExtra(ls, event, meta) ==
    [ls |-> ls,
     result |-> <<[event EXCEPT !.extra =
                      <<[other |-> <<>>, deduplication |-> <<meta>>]>>]>>,
     log |-> <<[kind |-> "report", count |-> meta.count,
                nextReportAt |-> meta.nextReportAt]>>,
     threw |-> FALSE]

\* event.extra = { ...event.extra, deduplication: { ... } }; return event
Report(ls, event, meta) ==
    [ls |-> ls,
     result |-> <<[event EXCEPT !.extra =
                      <<[ExtraOrEmpty(event) EXCEPT !.deduplication = <<meta>>]>>]>>,
     log |-> <<[kind |-> "report", count |-> meta.count,
                nextReportAt |-> meta.nextReportAt]>>,
     threw |-> FALSE]

\* an exception leaves the gate: nothing is returned, and the SDK, which calls
\* beforeSend inside its own try, does not send the event
Throw(ls) == [ls |-> ls, result |-> <<>>, log |-> <<>>, threw |-> TRUE]

\* config.beforeSend of the custom strategy
beforeSend(ls, d, event) ==
    IF ExceptionValues(event) = <<>> /\ ~Truthy(event.message)
    THEN Pass(ls, event)
    ELSE LET fingerprint == getErrorFingerprint(event)
         IN  IF fingerprint = Unknown
             THEN Pass(ls, event)
             ELSE LET shouldReport == shouldReportError(ls, d, fingerprint)
                      currentCount == getErrorCount(shouldReport.ls, d, fingerprint)
                  IN  IF ~shouldReport.report
                      THEN Drop(shouldReport.ls, currentCount, nextReportAt(currentCount))
                      ELSE Report(shouldReport.ls, event,
                                  deduplication(d, fingerprint, currentCount))

\* a slip: the custom gate is installed whatever the switch says
initSentry_AlwaysCustom(env) == [custom |-> TRUE]

\* initSentry: the custom gate is installed only when the build-time switch
\* VITE_DEDUPE_STRATEGY is 'custom'; otherwise no beforeSend is configured
initSentry(env) == [custom |-> env.VITE_DEDUPE_STRATEGY = <<"custom">>]

----------------------------------------------------------------------------
(* Revision A (src/ui/src/Sentry.js 1-129): the gate is an event processor *)
(* installed by CustomDedupeIntegration.  getDailyKey, getErrorCount,      *)
(* incrementErrorCount and shouldReportError are the same code as above.   *)

getErrorFingerprint_A(event) ==
    LET exception == FirstException(event)
    IN  IF exception = <<>> THEN Unknown
        ELSE LET message == OrEmptyString(exception[1].value)
                 type == OrEmptyString(exception[1].type)
             IN  replaceWhitespaceRuns(toLowerCase(type \o <<":">> \o message), <<"_">>)

dedupeEventProcessor_A(ls, d, event) ==
    LET fingerprint == getErrorFingerprint_A(event)
        shouldReport == shouldReportError(ls, d, fingerprint)
        currentCount == getErrorCount(shouldReport.ls, d, fingerprint)
    IN  IF ~shouldReport.report
        THEN Drop(shouldReport.ls, currentCount, nextReportAt(currentCount))
        ELSE Report(shouldReport.ls, event,
                    [day |-> toISOStringDate(d),
                     fingerprint |-> <<fingerprint>>,
                     count |-> currentCount,
                     nextReportAt |-> nextReportAt(currentCount),
                     type |-> <<"per_error_deduplication">>])

----------------------------------------------------------------------------
(* Revision C (src/ui/src/Sentry.js 130-304): the gate is config.beforeSend *)
(* with the functions of the main gate; the metadata names its type, and    *)
(* initSentry sends a test error 100 ms after Sentry.init.                  *)

beforeSend_C(ls, d, event) ==
    IF ExceptionValues(event) = <<>> /\ ~Truthy(event.message)
    THEN Pass(ls, event)
    ELSE LET fingerprint == getErrorFingerprint(event)
         IN  IF fingerprint = Unknown
             THEN Pass(ls, event)
             ELSE LET shouldReport == shouldReportError(ls, d, fingerprint)
                      currentCount == getErrorCount(shouldReport.ls, d, fingerprint)
                  IN  IF ~shouldReport.report
                      THEN Drop(shouldReport.ls, currentCount, nextReportAt(currentCount))
                      ELSE Report(shouldReport.ls, event,
                                  [deduplication(d, fingerprint, currentCount)
                                      EXCEPT !.type = <<"per_error_deduplication">>])

----------------------------------------------------------------------------
(* Revision D (src/ui/src/Sentry.js 305-434): one counter per day for all  *)
(* events, and the first event after page load passes uncounted.           *)

\* `sentry-dedup-${year}-${month + 1}-${date}`
getDailyKey_D(d) ==
    KeyPrefix \o toString(getFullYear(d)) \o <<"-">>
              \o toString(Plus(getMonth(d), Num(1))) \o <<"-">>
              \o toString(getDate(d))

getErrorCount_D(ls, d) ==
    LET key == getDailyKey_D(d)
        data == getItem(ls, key)
    IN  IF Truthy(data) THEN parseInt(data[1]) ELSE Num(0)

incrementErrorCount_D(ls, d) ==
    LET key == getDailyKey_D(d)
        count == Plus(getErrorCount_D(ls, d), Num(1))
    IN  [ls |-> setItem(ls, key, toString(count)), count |-> count]

shouldReportError_D(ls, d) ==
    LET inc == incrementErrorCount_D(ls, d)
    IN  [ls |-> inc.ls,
         report |-> \/ StrictEq(inc.count, Num(1))
                    \/ StrictEq(Rem(Minus(inc.count, Num(1)), Num(10)), Num(0))]

\* returns, besides the gate's result, the value it leaves in the module
\* variable pageLoadErrorsHandled
dedupeEventProcessor_D(ls, d, handled, event) ==
    LET isPageLoadError == ~handled
    IN  IF isPageLoadError
        THEN [gate |-> Pass(ls, event), pageLoadErrorsHandled |-> TRUE]
        ELSE LET shouldReport == shouldReportError_D(ls, d)
                 count == getErrorCount_D(shouldReport.ls, d)
             IN  [gate |->
                    IF ~shouldReport.report
                    THEN Drop(shouldReport.ls, count, nextReportAt(count))
                    ELSE Report(shouldReport.ls, event,
                                [day |-> getDailyKey_D(d),
                                 fingerprint |-> <<>>,
                                 count |-> count,
                                 nextReportAt |-> nextReportAt(count),
                                 type |-> <<"user_triggered">>]),
                  pageLoadErrorsHandled |-> handled]

----------------------------------------------------------------------------
(* Revision G (src/unnamed/part_005 1-118): the first gate.  One counter   *)
(* per day for all events; getDailyKey, getErrorCount and                  *)
(* incrementErrorCount are the same code as in revision D.                 *)

\* count === 1 || count % 10 === 0
shouldReportError_G(ls, d) ==
    LET inc == incrementErrorCount_D(ls, d)
    IN  [ls |-> inc.ls,
         report |-> \/ StrictEq(inc.count, Num(1))
                    \/ StrictEq(Rem(inc.count, Num(10)), Num(0))]

\* Math.ceil(getErrorCount() / 10) * 10, the skip log's "Next report at"
nextReportAtLog_G(count) == Times(MathCeilDiv(count, Num(10)), Num(10))

\* Math.ceil(getErrorCount() / 10) * 10 + 1, the metadata's nextReportAt
nextReportAt_G(count) == Plus(Times(MathCeilDiv(count, Num(10)), Num(10)), Num(1))

dedupeEventProcessor_G(ls, d, event) ==
    LET shouldReport == shouldReportError_G(ls, d)
        count == getErrorCount_D(shouldReport.ls, d)
    IN  IF ~shouldReport.report
        THEN Drop(shouldReport.ls, count, nextReportAtLog_G(count))
        ELSE Report(shouldReport.ls, event,
                    [day |-> getDailyKey_D(d),
                     fingerprint |-> <<>>,
                     count |-> count,
                     nextReportAt |-> nextReportAt_G(count),
                     type |-> <<>>])

\* testDedupe.resetCount
resetCount_G(ls, d) == removeItem(ls, getDailyKey_D(d))

----------------------------------------------------------------------------
(* The events the application captures.                                    *)

ExceptionEvent(type, value, message, extra) ==
    [exception |-> <<[values |-> <<(<<[type |-> type, value |-> value]>>)>>]>>,
     message |-> message, extra |-> extra]

ErrorType == <<"E", "r", "r", "o", "r">>

\* Error: A                                   fingerprint "error:a"
ErrorA == ExceptionEvent(<<ErrorType>>, <<(<<"A">>)>>, <<>>, <<>>)

\* Error: B, captured with extra context      fingerprint "error:b"
ErrorB ==
    ExceptionEvent(<<ErrorType>>, <<(<<"B">>)>>, <<>>,
                   <<[other |-> <<(<<"x">>)>>, deduplication |-> <<>>]>>)

\* captureMessage("A \tb")                    fingerprint "message:a_b"
MessageEvent ==
    [exception |-> <<>>, message |-> <<(<<"A", " ", "\t", "b">>)>>, extra |-> <<>>]

\* a transaction: neither exception nor message
TransactionEvent == [exception |-> <<>>, message |-> <<>>, extra |-> <<>>]

\* exception.values is an empty list, no message: fingerprint "unknown"
EmptyExceptionEvent ==
    [exception |-> <<[values |-> <<(<<>>)>>]>>, message |-> <<>>, extra |-> <<>>]

\* new Error('Sentry initialization test - should be count #1'), the error
\* that initSentry captures 100 ms after Sentry.init
TestErrorEvent ==
    ExceptionEvent(<<ErrorType>>,
                   <<(<<"S", "e", "n", "t", "r", "y", " ", "i", "n", "i", "t", "i", "a", "l", "i", "z", "a", "t", "i", "o", "n", " ", "t", "e", "s", "t", " ">> \o
                      <<"-", " ", "s", "h", "o", "u", "l", "d", " ", "b", "e", " ", "c", "o", "u", "n", "t", " ", "#", "1">>)>>,
                   <<>>, <<>>)

\* the events the application captures in the model
Events == {ErrorA, ErrorB, MessageEvent, TransactionEvent, EmptyExceptionEvent}

MessageType == <<"M", "e", "s", "s", "a", "g", "e">>

\* exception.values[0].type: missing, or the name of the error's class
TypeShapes == {<<>>, <<ErrorType>>, <<MessageType>>}

\* exception.values[0].value: missing, empty, or the error's message
ValueShapes == {<<>>, <<(<<>>)>>, <<(<<"A">>)>>, <<(<<"a">>)>>}

\* event.message: missing, empty, or the text given to captureMessage
MessageShapes == {<<>>, <<(<<>>)>>, <<(<<"A">>)>>, <<(<<"A", " ", "\t", "b">>)>>}

\* event.exception without a first entry: missing, without values, or with
\* an empty list of values
NoEntryShapes == {<<>>, <<[values |-> <<>>]>>, <<[values |-> <<(<<>>)>>]>>}

\* every shape of event the gate can be handed: the well-formed ones and the
\* malformed ones
EventShapes ==
    {ExceptionEvent(type, value, <<>>, <<>>) : type \in TypeShapes, value \in ValueShapes}
        \cup {[exception |-> exception, message |-> message, extra |-> <<>>] :
                 exception \in NoEntryShapes, message \in MessageShapes}
        \cup {ExceptionEvent(<<ErrorType>>, <<(<<"A">>)>>, <<(<<"A">>)>>, <<>>),
              ExceptionEvent(<<>>, <<>>, <<(<<"A">>)>>, <<>>)}

\* the fingerprint whose counter the model drives furthest
PrimaryFingerprint == <<"e", "r", "r", "o", "r", ":", "a">>

----------------------------------------------------------------------------
(* The MemoryCalculator component (src/ui/src/App.jsx 8-320).  A BigInt is  *)
(* the sequence of its decimal digits, most significant first, without      *)
(* leading zeros; Number(length) is exact below 2^53 and is kept as the     *)
(* same digits.  Sentry.captureException and Sentry.captureMessage hand an  *)
(* event to the SDK, which runs the gate later; the calculator's state      *)
(* records the calls.  The tracing helpers startManualTrace, addManualSpan  *)
(* and getCurrentTraceId only add breadcrumbs and spans.                    *)

Zero == <<0>>

RECURSIVE StripZeros(_)
StripZeros(v) == IF Len(v) > 1 /\ Head(v) = 0 THEN StripZeros(Tail(v)) ELSE v

\* /^\d+$/.test(value)
IsDigits(value) == value # <<>> /\ \A i \in 1..Len(value) : IsDigit(value[i])

\* BigInt(input), for a string of digits; any other non-empty string without
\* surrounding blanks is a SyntaxError
BigInt(input) ==
    IF IsDigits(input)
    THEN [ok |-> TRUE, v |-> StripZeros([i \in 1..Len(input) |-> DigitValue(input[i])])]
    ELSE [ok |-> FALSE, v |-> Zero]

\* a * m for a BigInt a and a digit m
RECURSIVE TimesCarry(_, _, _)
TimesCarry(a, m, carry) ==
    IF a = <<>> THEN (IF carry = 0 THEN <<>> ELSE <<carry>>)
    ELSE LET n == Len(a)
             p == a[n] * m + carry
         IN  Append(TimesCarry(SubSeq(a, 1, n - 1), m, p \div 10), p % 10)

BigTimes(a, m) == StripZeros(TimesCarry(a, m, 0))

\* a > b for BigInts
BigGreater(a, b) ==
    \/ Len(a) > Len(b)
    \/ /\ Len(a) = Len(b)
       /\ \E i \in 1..Len(a) : a[i] > b[i] /\ \A j \in 1..(i - 1) : a[j] = b[j]

\* 2^32 - 1, the largest length an array can have
MaxArrayLength == <<4, 2, 9, 4, 9, 6, 7, 2, 9, 5>>

\* new Array(lenNum) for a non-negative integer: RangeError "Invalid array
\* length" above 2^32 - 1
ArrayThrows(lenNum) == BigGreater(lenNum, MaxArrayLength)

\* String.prototype.trim
RECURSIVE TrimEnd(_)
TrimEnd(s) ==
    IF s # <<>> /\ IsSpace(s[Len(s)]) THEN TrimEnd(SubSeq(s, 1, Len(s) - 1)) ELSE s

trim(s) == TrimEnd(SkipSpaces(s))

\* BigInt(length) * BigInt(8)
bytesForArrayLength(length) == BigTimes(length, 8)

\* the value the page names for provoking the unhandled RangeError
\* (App.jsx 277: "Test with 4294967296")
TestValue == <<"4", "2", "9", "4", "9", "6", "7", "2", "9", "6">>

\* the value the page of src/unnamed/part_002 names (196-200:
\* "Test with 4294967295")
TestValue_2 == <<"4", "2", "9", "4", "9", "6", "7", "2", "9", "5">>

\* the component after its first render: useState('') / useState(null) /
\* useState(''); `calls` are the calls the last processCalculate made to
\* Sentry and to setTimeout, `last` the input it worked on (<<>> once another
\* handler has run), `unhandled` the errors thrown out of timer callbacks
Mounted(testValue) ==
    [lengthInput |-> <<>>, result |-> <<>>, error |-> <<>>, isCalculating |-> FALSE,
     calls |-> <<>>, last |-> <<>>, runs |-> 0, unhandled |-> <<>>,
     testValue |-> testValue]

\* the try block of the validation (83-96); `threw` with err.message
Validation(input) ==
    IF input = <<>>
    THEN [threw |-> TRUE, message |-> "Please enter an array length"]
    ELSE IF ~BigInt(input).ok
    THEN [threw |-> TRUE, message |-> "Cannot convert to a BigInt"]
    ELSE IF BigInt(input).v = Zero
    THEN [threw |-> TRUE, message |-> "Array length cannot be zero"]
    ELSE [threw |-> FALSE, message |-> ""]

\* the state processCalculate starts from: setResult(null); setError('')
Started(c, input) ==
    [c EXCEPT !.result = <<>>, !.error = <<>>, !.calls = <<>>, !.last = <<input>>,
              !.runs = @ + 1]

\* the array creation and the calculation (114-175) and their catch (176-191)
Calculated(c, length, errorTail) ==
    LET lenNum == length    \* Number(length): every typed value is below 2^53
    IN  IF ArrayThrows(lenNum)
        THEN [c EXCEPT !.error = <<"Error: ", "Invalid array length">> \o errorTail,
                       !.calls = Append(@, [fn |-> "setTimeout", arg |-> "RangeError"])]
        ELSE LET bytes == bytesForArrayLength(length)
             IN  [c EXCEPT !.result = <<[length |-> lenNum, bytes |-> bytes,
                                         bits |-> BigTimes(bytes, 8)]>>,
                           !.calls = Append(@, [fn |-> "captureMessage",
                                                arg |-> "Array memory calculation completed"])]

\* a slip: the catch of the validation does not return; the array creation
\* runs with Number(undefined), which is NaN, and new Array(NaN) throws
processCalculate_NoReturn(c) ==
    LET input == trim(c.lengthInput)
        validation == Validation(input)
        start == Started(c, input)
    IN  IF validation.threw
        THEN [start EXCEPT !.error = <<"Error: ", "Invalid array length",
                                       " (Trace ID: ", "traceId", ")">>,
                           !.calls = <<[fn |-> "captureException",
                                        arg |-> validation.message],
                                       [fn |-> "setTimeout", arg |-> "RangeError"]>>]
        ELSE Calculated(start, BigInt(input).v, <<" (Trace ID: ", "traceId", ")">>)

\* processCalculate of App.jsx (65-192)
processCalculate(c) ==
    LET input == trim(c.lengthInput)
        validation == Validation(input)
        start == Started(c, input)
    IN  IF validation.threw
        THEN [start EXCEPT !.error = <<validation.message>>,
                           !.calls = <<[fn |-> "captureException",
                                        arg |-> validation.message]>>]
        ELSE Calculated(start, BigInt(input).v, <<" (Trace ID: ", "traceId", ")">>)

\* processCalculate of src/unnamed/part_002 (42-118): no trace, and
\* isCalculating is set for the time of the call
processCalculate_2(c) ==
    LET input == trim(c.lengthInput)
        validation == Validation(input)
        start == [Started(c, input) EXCEPT !.isCalculating = TRUE]
    IN  IF validation.threw
        THEN [start EXCEPT !.error = <<validation.message>>,
                           !.isCalculating = FALSE,
                           !.calls = <<[fn |-> "captureException",
                                        arg |-> validation.message]>>]
        ELSE [Calculated(start, BigInt(input).v, <<>>) EXCEPT !.isCalculating = FALSE]

\* what the user can put into the input field
TypedValues ==
    {<<>>, <<"0">>, <<"0", "0">>, <<"1">>, <<"0", "7">>, <<"1", "2", "5">>,
     <<" ">>, <<"1", "e", "3">>, <<"-", "1">>,
     <<"4", "2", "9", "4", "9", "6", "7", "2", "9", "5">>, <<"4", "2", "9", "4", "9", "6", "7", "2", "9", "6">>, <<"9", "9", "9", "9", "9", "9", "9", "9", "9", "9", "9">>}

----------------------------------------------------------------------------
(* Bounds.                                                                 *)

\* captures of the primary fingerprint, over all days
MaxPrimary == 12

\* captures of every other fingerprint together, over all days
MaxOther == 1

\* the last instant of the clock, in half days
MaxNow == 1

\* events handed to the gate when every shape of event is tried
MaxInputs == 2

\* captures of the primary fingerprint where the gate is interleaved with
\* the other page of the origin or with the test helpers
MaxCalls == 4

\* runs of processCalculate
MaxRuns == 3

\* time zones, in half days east of UTC
TimeZones == {0, 1}

----------------------------------------------------------------------------
(* State.                                                                  *)

VARIABLES
    env,                    \* import.meta.env, fixed at build time
    config,                 \* what initSentry configured at page load
    localStorage,           \* the browser's storage for the origin
    pageLoadErrorsHandled,  \* module variable of Sentry.js 334
    now,                    \* the clock, in half days (UTC)
    tz,                     \* the browser's time zone
    transport,              \* the events handed on to the transport
    last,                   \* the last capture and what the gate made of it
    hist,                   \* per (local day, fingerprint): captures seen,
                            \* captures forwarded, last predicted next report
    fresh,                  \* "boot" / "reload": no capture yet since the page was
                            \* first loaded / reloaded; "no": one has happened
    tabs,                   \* SpecT: per page of the origin, the call of
                            \* beforeSend it is in and that call's locals
    input,                  \* SpecF: the events handed to the gate, in order
    output,                 \* SpecF: what the gate made of each of them
    timers,                 \* the setTimeout callbacks that have not run yet
    calc                    \* the state of the MemoryCalculator component

vars == <<env, config, localStorage, pageLoadErrorsHandled, now, tz, transport,
          last, hist, fresh, tabs, input, output, timers, calc>>

\* the pages sharing the origin's localStorage
Tabs == {1, 2}

\* a page that is not inside beforeSend
IdleTab == [pc |-> "idle", event |-> <<>>, fingerprint |-> <<>>, key |-> <<>>,
            count |-> Num(0), report |-> FALSE]

\* the variables that only SpecT and SpecF use
aux == <<tabs, input, output, timers, calc>>

Today == [utc |-> now, tz |-> tz]

NoCapture ==
    [event |-> <<>>, fingerprint |-> <<>>, day |-> 0, k |-> 0, result |-> <<>>,
     log |-> <<>>, first |-> "no", prev |-> <<>>,
     before |-> EmptyStorage, threw |-> FALSE]

NoHist == [n |-> 0, forwarded |-> 0, next |-> <<>>, run |-> 0, gap |-> 0]

HistOf(key) == IF key \in DOMAIN hist THEN hist[key] ELSE NoHist

RECURSIVE SumSeen(_)
SumSeen(keys) ==
    IF keys = {} THEN 0
    ELSE LET k == CHOOSE x \in keys : TRUE
         IN  hist[k].n + SumSeen(keys \ {k})

SeenPrimary == SumSeen({k \in DOMAIN hist : k[2] = PrimaryFingerprint})

SeenOther == SumSeen({k \in DOMAIN hist : k[2] # PrimaryFingerprint})

\* the fingerprint the specification gives each event of the model
FingerprintOf ==
    [e \in Events \cup EventShapes \cup {TestErrorEvent} |-> getErrorFingerprint(e)]

\* the bound on the captures the model explores
WithinBounds(event) ==
    IF FingerprintOf[event] = PrimaryFingerprint
    THEN SeenPrimary < MaxPrimary
    ELSE SeenOther < MaxOther

\* the calls in flight for the primary fingerprint / for the others
InFlight(primary) ==
    Cardinality({t \in Tabs : /\ tabs[t].pc # "idle"
                              /\ (tabs[t].fingerprint = <<PrimaryFingerprint>>) = primary})

\* the smaller bound on the captures, for the specifications with more
\* interleaving
WithinCalls(event) ==
    IF FingerprintOf[event] = PrimaryFingerprint
    THEN SeenPrimary + InFlight(TRUE) < MaxCalls
    ELSE SeenOther + InFlight(FALSE) < MaxOther

\* no callback is pending: neither the test error of initSentry nor a
\* re-throw of the calculator
NoTimers == [test |-> FALSE, rethrow |-> 0]

\* the page has loaded: initSentry has run at the import of Sentry.js, no
\* event has been captured
Loaded ==
    /\ env \in {[VITE_DEDUPE_STRATEGY |-> s] : s \in {<<>>, <<"custom">>, <<"default">>}}
    /\ config = initSentry(env)
    /\ localStorage = EmptyStorage
    /\ pageLoadErrorsHandled = FALSE
    /\ now = 0
    /\ tz \in TimeZones
    /\ transport = {}
    /\ last = NoCapture
    /\ hist = [k \in {} |-> NoHist]
    /\ fresh = "boot"
    /\ tabs = [t \in Tabs |-> IdleTab]
    /\ input = <<>>
    /\ output = <<>>

Init ==
    /\ Loaded
    /\ timers = NoTimers
    /\ calc = Mounted(TestValue)

\* the bookkeeping of a capture whose gate returned `out`
Recorded(event, out) ==
    LET key == <<LocalDay(Today), FingerprintOf[event]>>
        h == HistOf(key)
        sent == out.result # <<>>
        h2 == [n |-> h.n + 1,
               forwarded |-> IF sent THEN h.forwarded + 1 ELSE h.forwarded,
               next |-> IF out.log = <<>> THEN h.next ELSE <<out.log[1].nextReportAt>>,
               run |-> IF sent THEN 1 ELSE h.run + 1,
               gap |-> IF sent THEN h.run ELSE h.gap]
    IN  /\ transport' = IF sent THEN transport \cup {out.result[1]} ELSE transport
        /\ hist' = [k \in (DOMAIN hist) \cup {key} |-> IF k = key THEN h2 ELSE hist[k]]
        /\ last' = [event |-> <<event>>, fingerprint |-> <<key[2]>>, day |-> key[1],
                    k |-> h2.n, result |-> out.result, log |-> out.log,
                    first |-> fresh, prev |-> h.next,
                    before |-> localStorage, threw |-> out.threw]
        /\ fresh' = "no"

\* Sentry.captureException / captureMessage: the SDK runs config.beforeSend,
\* if one is configured, and sends what it returns unless that is null
Capture(event) ==
    LET out == IF config.custom THEN beforeSend(localStorage, Today, event)
               ELSE Pass(localStorage, event)
    IN  /\ WithinBounds(event)
        /\ localStorage' = out.ls
        /\ Recorded(event, out)
        /\ UNCHANGED <<env, config, pageLoadErrorsHandled, now, tz>>
        /\ UNCHANGED aux

\* time passes
Tick ==
    /\ now < MaxNow
    /\ now' = now + 1
    /\ UNCHANGED <<env, config, localStorage, pageLoadErrorsHandled, tz, transport,
                   last, hist, fresh>>
    /\ UNCHANGED aux

\* the page is reloaded: the module is evaluated again, localStorage is kept
Reload ==
    /\ config' = initSentry(env)
    /\ pageLoadErrorsHandled' = FALSE
    /\ fresh' = "reload"
    /\ UNCHANGED <<env, localStorage, now, tz, transport, last, hist>>
    /\ UNCHANGED aux

Next ==
    \/ \E event \in Events : Capture(event)
    \/ Tick
    \/ Reload

Spec == Init /\ [][Next]_vars

----------------------------------------------------------------------------
(* The other revisions of the gate, each under the same environment.       *)

\* revision A: the event processor runs for every event when the custom
\* integration is installed
CaptureA(event) ==
    LET out == IF config.custom THEN dedupeEventProcessor_A(localStorage, Today, event)
               ELSE Pass(localStorage, event)
    IN  /\ WithinBounds(event)
        /\ localStorage' = out.ls
        /\ Recorded(event, out)
        /\ UNCHANGED <<env, config, pageLoadErrorsHandled, now, tz>>
        /\ UNCHANGED aux

NextA ==
    \/ \E event \in Events : CaptureA(event)
    \/ Tick
    \/ Reload

SpecA == Init /\ [][NextA]_vars

\* revision D
CaptureD(event) ==
    LET out == IF config.custom
               THEN dedupeEventProcessor_D(localStorage, Today, pageLoadErrorsHandled, event)
               ELSE [gate |-> Pass(localStorage, event),
                     pageLoadErrorsHandled |-> pageLoadErrorsHandled]
    IN  /\ WithinBounds(event)
        /\ localStorage' = out.gate.ls
        /\ pageLoadErrorsHandled' = out.pageLoadErrorsHandled
        /\ Recorded(event, out.gate)
        /\ UNCHANGED <<env, config, now, tz>>
        /\ UNCHANGED aux

NextD ==
    \/ \E event \in Events : CaptureD(event)
    \/ Tick
    \/ Reload

SpecD == Init /\ [][NextD]_vars

\* revision G
CaptureG(event) ==
    LET out == IF config.custom THEN dedupeEventProcessor_G(localStorage, Today, event)
               ELSE Pass(localStorage, event)
    IN  /\ WithinBounds(event)
        /\ localStorage' = out.ls
        /\ Recorded(event, out)
        /\ UNCHANGED <<env, config, pageLoadErrorsHandled, now, tz>>
        /\ UNCHANGED aux

NextG ==
    \/ \E event \in Events : CaptureG(event)
    \/ Tick
    \/ Reload

SpecG == Init /\ [][NextG]_vars

\* revision G with the helpers it exports for testing: testDedupe.resetCount()
ResetCount ==
    /\ localStorage' = resetCount_G(localStorage, Today)
    /\ UNCHANGED <<env, config, pageLoadErrorsHandled, now, tz, transport,
                   last, hist, fresh>>
    /\ UNCHANGED aux

NextR ==
    \/ \E event \in Events : WithinCalls(event) /\ CaptureG(event)
    \/ Tick
    \/ Reload
    \/ ResetCount

SpecR == Init /\ [][NextR]_vars

----------------------------------------------------------------------------
(* The per-fingerprint gate in a store that other code of the origin, or   *)
(* the user through the developer tools, can write too.                    *)

\* what a counter can be overwritten with: a word, and the empty string
CorruptValues == {<<"a", "b", "c">>, <<>>}

\* a counter of today is overwritten from outside the gate
Corrupt(fingerprint, value) ==
    /\ config.custom
    /\ localStorage' = setItem(localStorage, getDailyKey(Today, fingerprint), value)
    /\ UNCHANGED <<env, config, pageLoadErrorsHandled, now, tz, transport,
                   last, hist, fresh>>
    /\ UNCHANGED aux

NextC ==
    \/ \E event \in Events : WithinCalls(event) /\ Capture(event)
    \/ Tick
    \/ Reload
    \/ \E value \in CorruptValues : Corrupt(PrimaryFingerprint, value)

SpecC == Init /\ [][NextC]_vars

----------------------------------------------------------------------------
(* The per-fingerprint gate in a store whose writes can fail: setItem      *)
(* throws QuotaExceededError when the origin's quota is exhausted (or, in  *)
(* some private modes, always).                                            *)

\* beforeSend in a call whose localStorage.setItem throws: the event that is
\* not counted returns before any write; for a counted one the exception
\* leaves incrementErrorCount (18), shouldReportError (23) and beforeSend
\* (96), none of which has a try
beforeSendSetItemThrows(ls, d, event) ==
    IF ExceptionValues(event) = <<>> /\ ~Truthy(event.message)
    THEN Pass(ls, event)
    ELSE LET fingerprint == getErrorFingerprint(event)
         IN  IF fingerprint = Unknown
             THEN Pass(ls, event)
             ELSE Throw(ls)

CaptureW(event, writable) ==
    LET out == IF ~config.custom THEN Pass(localStorage, event)
               ELSE IF writable THEN beforeSend(localStorage, Today, event)
               ELSE beforeSendSetItemThrows(localStorage, Today, event)
    IN  /\ WithinBounds(event)
        /\ localStorage' = out.ls
        /\ Recorded(event, out)
        /\ UNCHANGED <<env, config, pageLoadErrorsHandled, now, tz>>
        /\ UNCHANGED aux

NextW ==
    \/ \E event \in Events, writable \in BOOLEAN :
          WithinCalls(event) /\ CaptureW(event, writable)
    \/ Tick
    \/ Reload

SpecW == Init /\ [][NextW]_vars

----------------------------------------------------------------------------
(* The per-fingerprint gate in two pages of one origin.  The pages run the  *)
(* same build and share localStorage; each call of beforeSend runs on its   *)
(* page's own thread, and nothing orders the storage accesses of one page   *)
(* against those of the other.  A call that counts its event makes three:   *)
(* the getItem of incrementErrorCount (11), its setItem (18) and the        *)
(* getItem of the getErrorCount that follows shouldReportError (97).        *)

\* the event is one that beforeSend counts
Counted(event) ==
    /\ config.custom
    /\ ~(ExceptionValues(event) = <<>> /\ ~Truthy(event.message))
    /\ getErrorFingerprint(event) # Unknown

\* beforeSend up to the getItem of incrementErrorCount; an event that is not
\* counted is returned at once
Start(t, event) ==
    /\ tabs[t].pc = "idle"
    /\ WithinCalls(event)
    /\ IF Counted(event)
       THEN LET fingerprint == getErrorFingerprint(event)
            IN  /\ tabs' = [tabs EXCEPT ![t] =
                               [pc |-> "incrementing",
                                event |-> <<event>>,
                                fingerprint |-> <<fingerprint>>,
                                key |-> <<getDailyKey(Today, fingerprint)>>,
                                count |-> Plus(getErrorCount(localStorage, Today,
                                                             fingerprint), Num(1)),
                                report |-> FALSE]]
                /\ UNCHANGED <<transport, last, hist, fresh>>
       ELSE /\ Recorded(event, Pass(localStorage, event))
            /\ UNCHANGED tabs
    /\ UNCHANGED <<env, config, localStorage, pageLoadErrorsHandled, now, tz,
                   input, output, timers, calc>>

\* the setItem of incrementErrorCount and the rule of shouldReportError
Write(t) ==
    /\ tabs[t].pc = "incrementing"
    /\ LET count == tabs[t].count
       IN  /\ localStorage' = setItem(localStorage, tabs[t].key[1], toString(count))
           /\ tabs' = [tabs EXCEPT ![t].pc = "counted",
                                   ![t].report =
                                       \/ StrictEq(count, Num(1))
                                       \/ StrictEq(Rem(Minus(count, Num(1)), Num(10)),
                                                   Num(0))]
    /\ UNCHANGED <<env, config, pageLoadErrorsHandled, now, tz, transport,
                   last, hist, fresh, input, output, timers, calc>>

\* the getErrorCount of beforeSend and the rest of the call
Finish(t) ==
    /\ tabs[t].pc = "counted"
    /\ LET event == tabs[t].event[1]
           fingerprint == tabs[t].fingerprint[1]
           currentCount == getErrorCount(localStorage, Today, fingerprint)
       IN  Recorded(event,
                    IF ~tabs[t].report
                    THEN Drop(localStorage, currentCount, nextReportAt(currentCount))
                    ELSE Report(localStorage, event,
                                deduplication(Today, fingerprint, currentCount)))
    /\ tabs' = [tabs EXCEPT ![t] = IdleTab]
    /\ UNCHANGED <<env, config, localStorage, pageLoadErrorsHandled, now, tz,
                   input, output, timers, calc>>

NextT ==
    \E t \in Tabs :
        \/ \E event \in Events : Start(t, event)
        \/ Write(t)
        \/ Finish(t)

SpecT == Init /\ [][NextT]_vars

----------------------------------------------------------------------------
(* The per-fingerprint gate in one page while the clock runs.  A call that  *)
(* counts its event samples the clock with new Date() four times: in the    *)
(* getDailyKey of incrementErrorCount (16), in the getDailyKey of its       *)
(* getErrorCount (17), in the getErrorCount of beforeSend (97) and for the  *)
(* metadata (109); the clock can pass midnight between any two of them.     *)

\* beforeSend up to the key that incrementErrorCount builds (16)
Enter(event) ==
    /\ tabs[1].pc = "idle"
    /\ WithinCalls(event)
    /\ IF Counted(event)
       THEN LET fingerprint == getErrorFingerprint(event)
            IN  /\ tabs' = [tabs EXCEPT ![1] =
                               [pc |-> "keyed",
                                event |-> <<event>>,
                                fingerprint |-> <<fingerprint>>,
                                key |-> <<getDailyKey(Today, fingerprint)>>,
                                count |-> Num(0),
                                report |-> FALSE]]
                /\ UNCHANGED <<transport, last, hist, fresh>>
       ELSE /\ Recorded(event, Pass(localStorage, event))
            /\ UNCHANGED tabs
    /\ UNCHANGED <<env, config, localStorage, pageLoadErrorsHandled, now, tz,
                   input, output, timers, calc>>

\* const count = getErrorCount(fingerprint) + 1 (17)
Read ==
    /\ tabs[1].pc = "keyed"
    /\ tabs' = [tabs EXCEPT ![1].pc = "incrementing",
                            ![1].count = Plus(getErrorCount(localStorage, Today,
                                                            tabs[1].fingerprint[1]),
                                              Num(1))]
    /\ UNCHANGED <<env, config, localStorage, pageLoadErrorsHandled, now, tz,
                   transport, last, hist, fresh, input, output, timers, calc>>

NextM ==
    \/ \E event \in Events : Enter(event)
    \/ Read
    \/ Write(1)
    \/ Finish(1)
    \/ Tick

SpecM == Init /\ [][NextM]_vars

----------------------------------------------------------------------------
(* Revision C over page loads.  Every load runs initSentry, which schedules *)
(* the test error; the store outlives the page.                             *)

\* the test errors captured so far
SeenTest == SumSeen({k \in DOMAIN hist : k[2] = FingerprintOf[TestErrorEvent]})

InitI ==
    /\ Loaded
    /\ timers = [NoTimers EXCEPT !.test = TRUE]
    /\ calc = Mounted(TestValue)

\* the callback of setTimeout(..., 100): Sentry.captureException(new Error(...))
TestError ==
    LET out == IF config.custom THEN beforeSend_C(localStorage, Today, TestErrorEvent)
               ELSE Pass(localStorage, TestErrorEvent)
    IN  /\ timers.test
        /\ SeenTest < MaxCalls
        /\ timers' = [timers EXCEPT !.test = FALSE]
        /\ localStorage' = out.ls
        /\ Recorded(TestErrorEvent, out)
        /\ UNCHANGED <<env, config, pageLoadErrorsHandled, now, tz, tabs, input, output,
                       calc>>

CaptureI(event) ==
    LET out == IF config.custom THEN beforeSend_C(localStorage, Today, event)
               ELSE Pass(localStorage, event)
    IN  /\ WithinCalls(event)
        /\ localStorage' = out.ls
        /\ Recorded(event, out)
        /\ UNCHANGED <<env, config, pageLoadErrorsHandled, now, tz>>
        /\ UNCHANGED aux

\* the page is loaded again: its pending timers are gone, initSentry runs
ReloadI ==
    /\ config' = initSentry(env)
    /\ pageLoadErrorsHandled' = FALSE
    /\ fresh' = "reload"
    /\ timers' = [test |-> TRUE, rethrow |-> 0]
    /\ UNCHANGED <<env, localStorage, now, tz, transport, last, hist, tabs, input,
                   output, calc>>

NextI ==
    \/ TestError
    \/ \E event \in Events : CaptureI(event)
    \/ Tick
    \/ ReloadI

SpecI == InitI /\ [][NextI]_vars

----------------------------------------------------------------------------
(* The calculator.                                                          *)

gate == <<env, config, localStorage, pageLoadErrorsHandled, now, tz, transport,
          last, hist, fresh, tabs, input, output>>

\* handleInputChange (38-44): the field takes only '' and strings of digits
handleInputChange(value) ==
    /\ calc' = IF value = <<>> \/ IsDigits(value)
               THEN [calc EXCEPT !.lengthInput = value, !.error = <<>>, !.last = <<>>]
               ELSE calc
    /\ UNCHANGED <<gate, timers>>

\* the Calculate button or Enter (194-198)
ProcessCalculate ==
    /\ calc.runs < MaxRuns
    /\ calc' = processCalculate(calc)
    /\ timers' = [timers EXCEPT !.rethrow =
                     @ + Cardinality({i \in 1..Len(calc'.calls) :
                                         calc'.calls[i].fn = "setTimeout"})]
    /\ UNCHANGED gate

ProcessCalculate_2 ==
    /\ calc.runs < MaxRuns
    /\ calc' = processCalculate_2(calc)
    /\ timers' = [timers EXCEPT !.rethrow =
                     @ + Cardinality({i \in 1..Len(calc'.calls) :
                                         calc'.calls[i].fn = "setTimeout"})]
    /\ UNCHANGED gate

\* the callback of setTimeout(() => { throw err; }, 0): the error leaves the
\* callback uncaught
Rethrow ==
    /\ timers.rethrow > 0
    /\ timers' = [timers EXCEPT !.rethrow = @ - 1]
    /\ calc' = [calc EXCEPT !.unhandled = Append(@, "RangeError")]
    /\ UNCHANGED gate

\* clearResults (200-206)
clearResults ==
    /\ calc' = [calc EXCEPT !.result = <<>>, !.error = <<>>, !.lengthInput = <<>>,
                            !.last = <<>>]
    /\ UNCHANGED <<gate, timers>>

NextP ==
    \/ \E value \in TypedValues : handleInputChange(value)
    \/ ProcessCalculate
    \/ Rethrow
    \/ clearResults

SpecP == Init /\ [][NextP]_vars

InitP2 ==
    /\ Loaded
    /\ timers = NoTimers
    /\ calc = Mounted(TestValue_2)

NextP2 ==
    \/ \E value \in TypedValues : handleInputChange(value)
    \/ ProcessCalculate_2
    \/ Rethrow
    \/ clearResults

SpecP2 == InitP2 /\ [][NextP2]_vars

----------------------------------------------------------------------------
(* The per-fingerprint gate handed events of every shape.                  *)

\* one call of getErrorFingerprint and of beforeSend on the event
Process(event) ==
    LET out == IF config.custom THEN beforeSend(localStorage, Today, event)
               ELSE Pass(localStorage, event)
    IN  /\ Len(input) < MaxInputs
        /\ localStorage' = out.ls
        /\ Recorded(event, out)
        /\ input' = Append(input, event)
        /\ output' = Append(output, [fingerprint |-> getErrorFingerprint(event),
                                     result |-> out.result,
                                     log |-> out.log,
                                     threw |-> out.threw])
        /\ UNCHANGED <<env, config, pageLoadErrorsHandled, now, tz, tabs, timers, calc>>

NextF == \E event \in EventShapes : Process(event)

SpecF == Init /\ [][NextF]_vars

----------------------------------------------------------------------------
(* Properties.                                                             *)

\* the forwarding rule as the specification states it: occurrences 1, 11, 21, ...
ForwardedOccurrence(k) == k = 1 \/ (k - 1) % 10 = 0

\* a capture has happened and the custom gate decided it
GateDecided == config.custom /\ last.event # <<>>

\* the last capture had a fingerprint other than "unknown"
Fingerprinted == last.fingerprint # <<Unknown>>

\* an instant of local day `day`, in the browser's time zone
InstantOf(day) == [utc |-> 2 * day - tz, tz |-> tz]

\* the deduplication entries of the events the transport has received
Transported == {e.extra[1].deduplication[1] :
                  e \in {x \in transport : x.extra # <<>> /\ x.extra[1].deduplication # <<>>}}

\* C1: for a fixed fingerprint other than "unknown" and a fixed local day, the
\* k-th event the gate processes is forwarded if and only if k = 1 or
\* (k - 1) mod 10 = 0; every other occurrence yields null and nothing with such
\* a count reaches the transport.
C1_ForwardedExactlyAt_1_11_21 ==
    (GateDecided /\ Fingerprinted) =>
        /\ (last.result # <<>>) <=> ForwardedOccurrence(last.k)
        /\ last.result # <<>> => last.result[1] \in transport
        /\ \A m \in Transported : ~m.count.nan /\ ForwardedOccurrence(m.count.v)

C1_Witness ==
    /\ GateDecided
    /\ last.fingerprint = <<PrimaryFingerprint>>
    /\ last.k = 11
    /\ last.result # <<>>
    /\ HistOf(<<last.day, PrimaryFingerprint>>).forwarded = 2

\* C2: counting is unconditional: the stored counter of (day, fingerprint) is
\* the number of occurrences the gate has seen that day, forwarded or dropped,
\* and it is persisted by the time the decision is returned.
C2_CountsEveryOccurrence ==
    config.custom =>
        /\ \A key \in DOMAIN hist :
              key[2] # Unknown =>
                 getItem(localStorage, getDailyKey(InstantOf(key[1]), key[2]))
                    = <<NatToString(hist[key].n)>>
        /\ (last.event # <<>> /\ Fingerprinted) =>
              /\ getErrorCount(localStorage, InstantOf(last.day), last.fingerprint[1])
                    = Plus(getErrorCount(last.before, InstantOf(last.day),
                                         last.fingerprint[1]), Num(1))
              /\ last.log # <<>> /\ last.log[1].count = Num(last.k)

C2_Witness ==
    /\ GateDecided
    /\ last.fingerprint = <<PrimaryFingerprint>>
    /\ last.result = <<>>
    /\ last.k = 5
    /\ getItem(localStorage, getDailyKey(InstantOf(last.day), PrimaryFingerprint))
          = <<(<<"5">>)>>
    /\ HistOf(<<last.day, PrimaryFingerprint>>).forwarded = 1

----------------------------------------------------------------------------

CustomStrategy == env.VITE_DEDUPE_STRATEGY = <<"custom">>

Captured == last.event # <<>>

\* the event has neither a first exception entry nor a message
NoPayload(event) == FirstException(event) = <<>> /\ ~Truthy(event.message)

\* C3: an event with neither an exception payload nor a message is always
\* forwarded unchanged by the custom gate, and processing it writes no store
\* key.
C3_UnknownForwardedUncounted ==
    (CustomStrategy /\ Captured /\ NoPayload(last.event[1])) =>
        /\ last.result = last.event
        /\ localStorage = last.before

\* C4: in pass-through mode (VITE_DEDUPE_STRATEGY anything but 'custom') every
\* event is forwarded unchanged and the store is never written, for any
\* sequence of events.
C4_PassThroughTouchesNothing ==
    ~CustomStrategy =>
        /\ localStorage = EmptyStorage
        /\ transport \subseteq Events
        /\ Captured =>
              /\ last.result = last.event
              /\ last.event[1] \in transport
              /\ last.before = EmptyStorage
        /\ \A key \in DOMAIN hist : hist[key].forwarded = hist[key].n

C4_Witness ==
    /\ env.VITE_DEDUPE_STRATEGY = <<"default">>
    /\ last.event = <<ErrorA>>
    /\ last.k = 5
    /\ last.result = <<ErrorA>>
    /\ ErrorB \in transport
    /\ last.first = "reload"

\* C5: distinct fingerprints have independent counters: whatever events of
\* other fingerprints were processed before it, the first event of a
\* fingerprint on a day is forwarded (5 events of "error:a" and then 1 event
\* of "error:b" forward the first "error:a" and the first "error:b").
C5_IndependentCounters ==
    (CustomStrategy /\ Captured /\ Fingerprinted /\ last.k = 1) => last.result # <<>>

\* C6: the counter survives a page reload: the first event after a reload
\* that finds counts in the store is counted like any other (the store
\* changes) and is decided by the 1, 11, 21, ... rule on the count it reaches.
C6_ReloadContinuesSequence ==
    (/\ CustomStrategy /\ Captured /\ Fingerprinted
     /\ last.first = "reload" /\ last.before # EmptyStorage) =>
        /\ localStorage # last.before
        /\ last.log # <<>>
        /\ ~last.log[1].count.nan
        /\ (last.result # <<>>) <=> ForwardedOccurrence(last.log[1].count.v)

\* the key under which the counter of (local day, fingerprint) is stored
StoredUnder(day, fingerprint) == getDailyKey(InstantOf(day), fingerprint)

\* C7: the counter is scoped to the local calendar day: the first event of a
\* fingerprint on a local day is counted as 1 and forwarded, whatever the
\* previous day's count and however late on the previous day its events came.
C7_FirstOfLocalDayIsOne ==
    (CustomStrategy /\ Captured /\ Fingerprinted /\ last.k = 1) =>
        /\ last.result # <<>>
        /\ last.log # <<>> /\ last.log[1].count = Num(1)
        /\ getItem(localStorage, StoredUnder(last.day, last.fingerprint[1])) = <<(<<"1">>)>>

\* day 0's five events all came in its second half; the event of day 1 comes
\* half a day later
C7_Witness ==
    /\ CustomStrategy
    /\ tz = 1 /\ now = 1
    /\ last.fingerprint = <<PrimaryFingerprint>>
    /\ last.day = 1 /\ last.k = 1
    /\ last.result # <<>>
    /\ HistOf(<<0, PrimaryFingerprint>>).n = 5

\* the fingerprints of the events of the model
Fingerprints == {getErrorFingerprint(e) : e \in Events} \ {Unknown}

\* C8: the count stored for a (day, fingerprint) pair never decreases, and a
\* day on which a fingerprint was not seen has no counter for it.
C8_StoredCountNeverDecreases ==
    CustomStrategy =>
        /\ \A key \in DOMAIN last.before :
              /\ key \in DOMAIN localStorage
              /\ ~parseInt(localStorage[key]).nan
              /\ parseInt(localStorage[key]).v >= parseInt(last.before[key]).v
        /\ \A f \in Fingerprints : \A day \in 0..(LocalDay(Today) + 1) :
              <<day, f>> \notin DOMAIN hist =>
                 /\ getItem(localStorage, StoredUnder(day, f)) = <<>>
                 /\ getErrorCount(localStorage, InstantOf(day), f) = Num(0)

C8_Witness ==
    /\ CustomStrategy
    /\ last.fingerprint = <<PrimaryFingerprint>>
    /\ last.day = 1 /\ last.k = 2
    /\ getItem(last.before, StoredUnder(0, PrimaryFingerprint)) = <<(<<"1", "0">>)>>
    /\ getItem(localStorage, StoredUnder(0, PrimaryFingerprint)) = <<(<<"1", "0">>)>>
    /\ getItem(last.before, StoredUnder(1, PrimaryFingerprint)) = <<(<<"1">>)>>
    /\ getItem(localStorage, StoredUnder(1, PrimaryFingerprint)) = <<(<<"2">>)>>

\* C9: a forwarded event is the event annotated with
\* {day, fingerprint, count, nextReportAt}: its fingerprint, the count after
\* the increment and floor((count - 1) / 10) * 10 + 11; a dropped event yields
\* null.
C9_ForwardedEventIsAnnotated ==
    (CustomStrategy /\ Captured /\ Fingerprinted) =>
        IF ForwardedOccurrence(last.k)
        THEN /\ last.result # <<>>
             /\ last.result[1].extra # <<>>
             /\ last.result[1].extra[1].deduplication # <<>>
             /\ LET m == last.result[1].extra[1].deduplication[1]
                IN  /\ m.fingerprint = last.fingerprint
                    /\ m.count = Num(last.k)
                    /\ m.nextReportAt = Num(((last.k - 1) \div 10) * 10 + 11)
                    /\ m.day # <<>>
                    /\ m.type = <<>>
        ELSE last.result = <<>>

C9_Witness ==
    /\ CustomStrategy
    /\ last.event = <<ErrorA>>
    /\ last.k = 11
    /\ last.result # <<>>
    /\ last.result[1].extra[1].deduplication[1].nextReportAt = Num(21)
    /\ last.result[1].extra[1].deduplication[1].fingerprint = <<PrimaryFingerprint>>

\* C10: the predicted next report is right: when the gate has computed
\* nextReportAt for an occurrence and the next occurrence of the fingerprint
\* arrives on that day, its count is not past the prediction and it is
\* forwarded exactly if its count is the predicted one.  Stated for runs of
\* one fingerprint on one day.
C10_NextReportAtIsNextForwarded ==
    (/\ CustomStrategy /\ Captured /\ Fingerprinted
     /\ Cardinality(DOMAIN hist) = 1
     /\ last.prev # <<>> /\ last.log # <<>>) =>
        LET p == last.prev[1]
            c == last.log[1].count
        IN  /\ ~p.nan /\ ~c.nan
            /\ c.v <= p.v
            /\ (last.result # <<>>) <=> (c.v = p.v)

----------------------------------------------------------------------------

\* C11: a corrupted stored counter is treated as 0: in every capture that
\* finds the value stored for (today, fingerprint) absent or not a number, the
\* event is counted as occurrence 1 and forwarded, and the number 1 is written
\* back.
C11_CorruptedCounterCountsAsZero ==
    [][(/\ CustomStrategy /\ hist' # hist /\ last'.fingerprint # <<Unknown>>
        /\ LET stored == getItem(localStorage,
                                 StoredUnder(last'.day, last'.fingerprint[1]))
           IN  stored = <<>> \/ parseInt(stored[1]).nan) =>
           /\ last'.result # <<>>
           /\ last'.log # <<>> /\ last'.log[1].count = Num(1)
           /\ getItem(localStorage', StoredUnder(last'.day, last'.fingerprint[1]))
                 = <<(<<"1">>)>>]_vars

\* C12: a failing store write does not block the event: when the counter of
\* a counted event could not be written (the store is as it was), the gate
\* has not thrown and has returned the event or null as the count in memory,
\* the stored count + 1, decides.
C12_FailedWriteStillDecides ==
    (/\ CustomStrategy /\ Captured /\ Fingerprinted
     /\ localStorage = last.before) =>
        /\ ~last.threw
        /\ LET count == Plus(getErrorCount(last.before, InstantOf(last.day),
                                           last.fingerprint[1]), Num(1))
           IN  /\ ~count.nan
               /\ (last.result # <<>>) <=> ForwardedOccurrence(count.v)

----------------------------------------------------------------------------

\* the characters of the model's strings
Chars ==
    {DigitChars[i] : i \in 1..Len(DigitChars)}
        \cup {UpperChars[i] : i \in 1..Len(UpperChars)}
        \cup {LowerChars[i] : i \in 1..Len(LowerChars)}
        \cup {" ", "\t", "\n", ":", "_", "-"}

IsString(s) == s \in Seq(Chars)

\* C13: the gate is total: for every event handed to it, however malformed,
\* getErrorFingerprint has returned a string and beforeSend has returned,
\* without an exception, null or the event (annotated or not).
C13_GateIsTotal ==
    \A i \in 1..Len(input) :
        /\ IsString(output[i].fingerprint)
        /\ ~output[i].threw
        /\ \/ output[i].result = <<>>
           \/ /\ output[i].result[1].exception = input[i].exception
              /\ output[i].result[1].message = input[i].message

\* an event without exception and message, then an exception entry without
\* type and value
C13_Witness ==
    /\ CustomStrategy
    /\ Len(input) = 2
    /\ input[1] = [exception |-> <<>>, message |-> <<>>, extra |-> <<>>]
    /\ output[1].fingerprint = Unknown
    /\ output[1].result = <<input[1]>>
    /\ input[2] = ExceptionEvent(<<>>, <<>>, <<>>, <<>>)
    /\ output[2].fingerprint = <<":">>
    /\ output[2].result # <<>>

\* lowercase, with each run of whitespace replaced by one underscore
RECURSIVE Normalized(_)
Normalized(s) ==
    IF s = <<>> THEN <<>>
    ELSE LET n == Len(s)
             c == s[n]
             front == Normalized(SubSeq(s, 1, n - 1))
         IN  IF c \in {" ", "\t", "\n"}
             THEN IF n > 1 /\ s[n - 1] \in {" ", "\t", "\n"}
                  THEN front ELSE Append(front, "_")
             ELSE IF \E i \in 1..26 : UpperChars[i] = c
             THEN Append(front, LowerChars[CHOOSE i \in 1..26 : UpperChars[i] = c])
             ELSE Append(front, c)

\* the reference derivation of the fingerprint
ReferenceFingerprint(event) ==
    LET exception == FirstException(event)
    IN  IF exception # <<>>
        THEN Normalized(OrEmptyString(exception[1].type)) \o <<":">>
                \o Normalized(OrEmptyString(exception[1].value))
        ELSE IF Truthy(event.message)
        THEN <<"m", "e", "s", "s", "a", "g", "e", ":">> \o Normalized(event.message[1])
        ELSE <<"u", "n", "k", "n", "o", "w", "n">>

\* C14: the fingerprint the gate derives is the reference derivation:
\* lowercase(type) + ":" + lowercase(message) for an event with an exception,
\* "message:" + lowercase(message) for one with only a message, both with
\* whitespace runs as one underscore, and "unknown" for one with neither;
\* it is the fingerprint of the annotation and of the counter that is written.
C14_FingerprintIsReference ==
    /\ \A i \in 1..Len(input) : output[i].fingerprint = ReferenceFingerprint(input[i])
    /\ (CustomStrategy /\ Captured) =>
          LET reference == ReferenceFingerprint(last.event[1])
          IN  /\ (/\ last.result # <<>>
                  /\ last.result[1].extra # <<>>
                  /\ last.result[1].extra[1].deduplication # <<>>) =>
                     last.result[1].extra[1].deduplication[1].fingerprint = <<reference>>
              /\ localStorage # last.before =>
                     getItem(localStorage, getDailyKey(InstantOf(last.day), reference)) # <<>>

\* the normalized (type, message) pair of an event; an event with only a
\* message has no type, an event with neither has no pair
NormalizedPair(event) ==
    LET exception == FirstException(event)
    IN  IF exception # <<>>
        THEN [type |-> <<Normalized(OrEmptyString(exception[1].type))>>,
              message |-> <<Normalized(OrEmptyString(exception[1].value))>>]
        ELSE IF Truthy(event.message)
        THEN [type |-> <<>>, message |-> <<Normalized(event.message[1])>>]
        ELSE [type |-> <<>>, message |-> <<>>]

\* C15: fingerprints are equal exactly for equal normalized (type, message)
\* pairs, an exception event against a message event included, so that two
\* events with different pairs never share a counter: the first event of its
\* pair is counted as 1.
C15_FingerprintInjectiveOnPairs ==
    /\ \A i, j \in 1..Len(input) :
          (NormalizedPair(input[i]) = NormalizedPair(input[j]))
             <=> (output[i].fingerprint = output[j].fingerprint)
    /\ (/\ CustomStrategy /\ Len(input) = 2
        /\ NormalizedPair(input[1]) # NormalizedPair(input[2])
        /\ output[2].log # <<>>) =>
           output[2].log[1].count = Num(1)

----------------------------------------------------------------------------

\* the occurrences among the first n that the rule forwards
ForwardedAmong(n) == Cardinality({k \in 1..n : ForwardedOccurrence(k)})

\* no page is inside beforeSend
Quiescent == \A t \in Tabs : tabs[t].pc = "idle"

\* C16: the read-increment-write of a counter behaves as a critical section
\* under concurrent calls: once the calls have returned, the stored count of a
\* (day, fingerprint) is the number k of calls made for it and the calls
\* forwarded are as many as the occurrences 1, 11, 21, ... up to k.
C16_NoLostIncrement ==
    (CustomStrategy /\ Quiescent) =>
        \A key \in DOMAIN hist :
            key[2] # Unknown =>
                /\ getItem(localStorage, StoredUnder(key[1], key[2]))
                      = <<NatToString(hist[key].n)>>
                /\ hist[key].forwarded = ForwardedAmong(hist[key].n)

----------------------------------------------------------------------------

\* C17: the forwarding rule applies to every event alike: whatever its
\* position in the session, the first event after a page load included, an
\* event is counted (the store changes, a count is logged) and forwarded
\* exactly if the count it reached is one of 1, 11, 21, ...; no event is
\* forwarded without being counted.
C17_RuleAppliesToEveryEvent ==
    (CustomStrategy /\ Captured /\ Fingerprinted) =>
        /\ localStorage # last.before
        /\ last.log # <<>>
        /\ ~last.log[1].count.nan
        /\ (last.result # <<>>) <=> ForwardedOccurrence(last.log[1].count.v)

\* C18: with the custom strategy the errors reported each day are the 1st,
\* 10th, 20th, 30th, ...: an event is forwarded if and only if the daily
\* count it reached is 1 or a multiple of 10.
C18_ForwardedAt_1_10_20 ==
    (CustomStrategy /\ Captured /\ Fingerprinted /\ last.log # <<>>) =>
        LET count == last.log[1].count
        IN  /\ ~count.nan
            /\ (last.result # <<>>) <=> (count.v = 1 \/ count.v % 10 = 0)

\* the keys a gate of any revision writes at the instant d
KeysOfDay(d) ==
    {getDailyKey(d, f) : f \in Fingerprints \cup {Unknown}} \cup {getDailyKey_D(d)}

\* C19: the gate never deletes a counter: no step removes a key from the
\* store, and no step changes the value of a key of another day than the
\* current one, so the entries of earlier days stay as they were left.
C19_NoCounterIsDeleted ==
    [][\A key \in DOMAIN localStorage :
          /\ key \in DOMAIN localStorage'
          /\ localStorage'[key] # localStorage[key] =>
                key \in KeysOfDay([utc |-> now', tz |-> tz'])]_vars

\* the text s cut at every occurrence of the character c
RECURSIVE Split(_, _)
Split(s, c) ==
    IF \A i \in 1..Len(s) : s[i] # c THEN <<s>>
    ELSE LET i == CHOOSE j \in 1..Len(s) : s[j] = c /\ \A k \in 1..(j - 1) : s[k] # c
         IN  <<SubSeq(s, 1, i - 1)>> \o Split(SubSeq(s, i + 1, Len(s)), c)

\* the calendar day that a text year-month-day denotes, zero-padded or not
DayDenoted(s) ==
    LET parts == Split(s, "-")
    IN  IF Len(parts) # 3 THEN <<>>
        ELSE <<[year |-> parseInt(parts[1]), month |-> parseInt(parts[2]),
                date |-> parseInt(parts[3])]>>

\* the calendar day of the local day number `day`
CalendarDay(day) ==
    LET c == CivilFromDays(day)
    IN  [year |-> Num(c.year), month |-> Num(c.month + 1), date |-> Num(c.date)]

\* C20: the day in a forwarded event's metadata is the day of the counter
\* that was incremented for it: it denotes the local calendar day (year,
\* month, day) of the store key, at whatever time of day the event is
\* processed.
C20_MetadataDayIsKeyDay ==
    (/\ CustomStrategy /\ Captured /\ Fingerprinted
     /\ last.result # <<>>
     /\ last.result[1].extra # <<>>
     /\ last.result[1].extra[1].deduplication # <<>>) =>
        /\ DayDenoted(last.result[1].extra[1].deduplication[1].day)
              = <<CalendarDay(last.day)>>
        /\ getItem(localStorage,
                   StoredUnder(last.day, last.fingerprint[1])) # <<>>

----------------------------------------------------------------------------

\* C21: the count in a forwarded event's metadata is the count after the
\* increment on which the decision to forward was made: it is 1 mod 10, and
\* it is the count that the increment of the same call computed, whatever
\* happens to the store between the increment and the re-read.
C21_MetadataCountIsDecidedCount ==
    [][(/\ CustomStrategy /\ hist' # hist
        /\ last'.fingerprint # <<Unknown>>
        /\ last'.result # <<>>) =>
           LET m == last'.result[1].extra[1].deduplication[1]
           IN  /\ ~m.count.nan
               /\ m.count.v % 10 = 1
               /\ \A t \in Tabs :
                     (tabs[t].pc = "counted" /\ tabs'[t].pc = "idle") =>
                        m.count = tabs[t].count]_vars

\* C22: one call uses one day: the key read and the key re-read are the key
\* that the call built for writing, also when the clock passes midnight
\* during the call, and a call never logs or reports the count 0.
C22_OneCallOneDay ==
    [][/\ \A t \in Tabs :
             (tabs[t].pc \in {"keyed", "counted"} /\ tabs'[t].pc # tabs[t].pc) =>
                tabs[t].key = <<getDailyKey(Today, tabs[t].fingerprint[1])>>
       /\ (CustomStrategy /\ hist' # hist /\ last'.log # <<>>) =>
             last'.log[1].count # Num(0)]_vars

----------------------------------------------------------------------------

\* C23: processing an event of fingerprint f on day d changes at most the
\* store entry of (d, f): every other key, of another fingerprint or of
\* another day, has after the call the value it had before, and no other key
\* appears or disappears.
C23_OnlyOwnEntryChanges ==
    (CustomStrategy /\ Captured) =>
        /\ \A key \in (DOMAIN localStorage) \cup (DOMAIN last.before) :
              key # StoredUnder(last.day, last.fingerprint[1]) =>
                 getItem(localStorage, key) = getItem(last.before, key)
        /\ ~Fingerprinted => localStorage = last.before

C23_Witness ==
    /\ CustomStrategy
    /\ last.event = <<ErrorA>>
    /\ last.day = 1
    /\ getItem(last.before, StoredUnder(1, PrimaryFingerprint)) = <<(<<"1">>)>>
    /\ getItem(localStorage, StoredUnder(1, PrimaryFingerprint)) = <<(<<"2">>)>>
    /\ getItem(localStorage, StoredUnder(0, PrimaryFingerprint)) = <<(<<"3">>)>>
    /\ getItem(localStorage, StoredUnder(0, FingerprintOf[ErrorB])) = <<(<<"1">>)>>

\* C24: a forwarded event is the event that came in, only annotated: its
\* exception and its message are unchanged, the entries that its extra context
\* had are unchanged and only the deduplication entry is added; an event
\* forwarded by the unknown path is returned as it came, without a
\* deduplication entry.
C24_ForwardedEventOnlyAnnotated ==
    (CustomStrategy /\ Captured /\ last.result # <<>>) =>
        LET in == last.event[1]
            out == last.result[1]
        IN  /\ out.exception = in.exception
            /\ out.message = in.message
            /\ ExtraOrEmpty(out).other = ExtraOrEmpty(in).other
            /\ IF Fingerprinted
               THEN /\ out.extra # <<>>
                    /\ out.extra[1].deduplication # <<>>
                    /\ out = [in EXCEPT !.extra =
                                 <<[ExtraOrEmpty(in) EXCEPT
                                       !.deduplication = out.extra[1].deduplication]>>]
               ELSE /\ out = in
                    /\ ExtraOrEmpty(out).deduplication = <<>>

C24_Witness ==
    /\ CustomStrategy
    /\ last.event = <<ErrorB>>
    /\ last.result # <<>>
    /\ last.result[1].extra[1].other = <<(<<"x">>)>>
    /\ last.result[1].extra[1].deduplication # <<>>
    /\ last.result[1].exception = ErrorB.exception

\* C25: in every state of a single caller in custom mode, the events of a
\* fingerprint forwarded so far on a day are ceil(N / 10) for its stored
\* count N; the occurrences since the last forwarded one, that one included,
\* are at most 10 (at most 9 consecutive drops), and a forwarded occurrence
\* other than the first comes exactly 10 after the forwarded one before it.
C25_ForwardedIsCeilOfTenth ==
    CustomStrategy =>
        \A key \in DOMAIN hist :
            key[2] # Unknown =>
                LET N == getErrorCount(localStorage, InstantOf(key[1]), key[2])
                IN  /\ ~N.nan
                    /\ Num(hist[key].forwarded) = MathCeilDiv(N, Num(10))
                    /\ hist[key].run \in 1..10
                    /\ hist[key].gap = (IF hist[key].forwarded = 1 THEN 0 ELSE 10)

C25_Witness ==
    /\ CustomStrategy
    /\ \E key \in DOMAIN hist :
          /\ key[2] = PrimaryFingerprint
          /\ getItem(localStorage, StoredUnder(key[1], key[2])) = <<(<<"1", "2">>)>>
          /\ hist[key].forwarded = 2
          /\ hist[key].run = 2
          /\ hist[key].gap = 10

\* C26: when only the gate writes the store, every stored value is the
\* decimal string of an integer >= 1 (never "0", a negative number or "NaN"),
\* and every write stores the number stored before plus one, or 1 for a key
\* that was absent.
C26_StoredValuesArePositiveDecimals ==
    [][CustomStrategy =>
          \A key \in DOMAIN localStorage' :
              LET value == localStorage'[key]
                  n == parseInt(value)
              IN  /\ ~n.nan
                  /\ n.v >= 1
                  /\ toString(n) = value
                  /\ \A i \in 1..Len(value) : IsDigit(value[i])
                  /\ getItem(localStorage, key) # <<value>> =>
                        n.v = (IF key \in DOMAIN localStorage
                               THEN parseInt(localStorage[key]).v ELSE 0) + 1]_vars

C26_Witness ==
    /\ CustomStrategy
    /\ last.event = <<ErrorA>>
    /\ getItem(last.before, StoredUnder(last.day, PrimaryFingerprint)) = <<(<<"9">>)>>
    /\ getItem(localStorage, StoredUnder(last.day, PrimaryFingerprint)) = <<(<<"1", "0">>)>>
    /\ getItem(localStorage, StoredUnder(last.day, FingerprintOf[ErrorB])) = <<>>

----------------------------------------------------------------------------

\* C27: when an event carries both an exception and a message, the first
\* exception entry determines the fingerprint, type:value, and the message is
\* ignored: events with the same first exception entry have the same
\* fingerprint whatever their message, and the counter of the message's
\* fingerprint is not touched.  The message determines the fingerprint only
\* when the event has no first exception entry.
C27_ExceptionWinsOverMessage ==
    /\ \A i \in 1..Len(input) :
          LET exception == FirstException(input[i])
          IN  IF exception # <<>>
              THEN /\ output[i].fingerprint =
                         Normalized(OrEmptyString(exception[1].type)) \o <<":">>
                            \o Normalized(OrEmptyString(exception[1].value))
                   /\ \A j \in 1..Len(input) :
                         FirstException(input[j]) = exception =>
                            output[j].fingerprint = output[i].fingerprint
              ELSE output[i].fingerprint =
                      (IF Truthy(input[i].message)
                       THEN MessagePrefix \o Normalized(input[i].message[1])
                       ELSE Unknown)
    /\ (/\ CustomStrategy /\ Captured
        /\ FirstException(last.event[1]) # <<>>
        /\ Truthy(last.event[1].message)) =>
           LET key == StoredUnder(last.day,
                                  MessagePrefix \o Normalized(last.event[1].message[1]))
           IN  getItem(localStorage, key) = getItem(last.before, key)

C27_Witness ==
    /\ CustomStrategy
    /\ Len(input) = 2
    /\ input[1] = ExceptionEvent(<<ErrorType>>, <<(<<"A">>)>>, <<>>, <<>>)
    /\ input[2] = ExceptionEvent(<<ErrorType>>, <<(<<"A">>)>>, <<(<<"A">>)>>, <<>>)
    /\ output[2].fingerprint = PrimaryFingerprint
    /\ output[2].result = <<>>
    /\ getItem(localStorage, StoredUnder(last.day, PrimaryFingerprint)) = <<(<<"2">>)>>
    /\ getItem(localStorage, StoredUnder(last.day, MessagePrefix \o <<"a">>)) = <<>>

----------------------------------------------------------------------------

\* C28: the test error that initSentry sends after Sentry.init is occurrence
\* 1 of its fingerprint and is forwarded, on every start of the application
\* in custom mode.
C28_TestErrorIsFirstOccurrence ==
    (CustomStrategy /\ Captured /\ last.event = <<TestErrorEvent>>) =>
        /\ last.log # <<>>
        /\ last.log[1].count = Num(1)
        /\ last.result # <<>>

----------------------------------------------------------------------------

\* the input of the last processCalculate denotes zero
DenotesZero(text) == text # <<>> /\ \A i \in 1..Len(text) : text[i] = "0"

\* the calls processCalculate made to the function fn
CallsTo(fn) == {i \in 1..Len(calc.calls) : calc.calls[i].fn = fn}

\* C29: empty and zero inputs are handled errors: after processCalculate on
\* an empty input or on the value 0 the error message is 'Please enter an
\* array length' / 'Array length cannot be zero', no result is set, exactly
\* one captureException call was made, with that error, and nothing is
\* re-thrown; after any processCalculate at most one of result and error is
\* set.
C29_EmptyAndZeroAreHandled ==
    calc.last # <<>> =>
        LET text == calc.last[1]
            message == IF text = <<>> THEN "Please enter an array length"
                       ELSE "Array length cannot be zero"
        IN  /\ (text = <<>> \/ DenotesZero(text)) =>
                  /\ calc.error = <<message>>
                  /\ calc.result = <<>>
                  /\ calc.calls = <<[fn |-> "captureException", arg |-> message]>>
                  /\ CallsTo("setTimeout") = {}
            /\ ~(calc.result # <<>> /\ calc.error # <<>>)

C29_Witness ==
    /\ calc.runs = 2
    /\ calc.last = <<(<<"0", "0">>)>>
    /\ calc.error = <<"Array length cannot be zero">>
    /\ calc.unhandled = <<>>
    /\ timers.rethrow = 0

\* a + b for BigInts
RECURSIVE PlusCarry(_, _, _)
PlusCarry(a, b, carry) ==
    IF a = <<>> /\ b = <<>> THEN (IF carry = 0 THEN <<>> ELSE <<carry>>)
    ELSE LET x == IF a = <<>> THEN 0 ELSE a[Len(a)]
             y == IF b = <<>> THEN 0 ELSE b[Len(b)]
             sum == x + y + carry
         IN  Append(PlusCarry(IF a = <<>> THEN a ELSE SubSeq(a, 1, Len(a) - 1),
                              IF b = <<>> THEN b ELSE SubSeq(b, 1, Len(b) - 1),
                              sum \div 10),
                    sum % 10)

Twice(a) == PlusCarry(a, a, 0)

\* the number a string of digits denotes
Denoted(text) == StripZeros([i \in 1..Len(text) |-> DigitValue(text[i])])

\* C30: a length above the maximum array length takes the unhandled-error
\* path: the error message is shown, no result is set, no 'calculation
\* completed' message is sent and the error is re-thrown from a timer exactly
\* once, as a RangeError; every length from 1 to the maximum array length
\* gives a result of length * 8 bytes and no error; and the value the page
\* names for the test takes the unhandled-error path.
C30_AboveMaximumIsUnhandled ==
    [][(calc'.runs # calc.runs /\ calc'.last[1] # <<>> /\ ~DenotesZero(calc'.last[1])) =>
          LET length == Denoted(calc'.last[1])
              unhandledPath ==
                  /\ calc'.error # <<>>
                  /\ SubSeq(calc'.error, 1, 2) = <<"Error: ", "Invalid array length">>
                  /\ calc'.result = <<>>
                  /\ calc'.calls = <<[fn |-> "setTimeout", arg |-> "RangeError"]>>
                  /\ timers'.rethrow = timers.rethrow + 1
          IN  /\ BigGreater(length, MaxArrayLength) => unhandledPath
              /\ ~BigGreater(length, MaxArrayLength) =>
                    /\ calc'.error = <<>>
                    /\ calc'.result # <<>>
                    /\ calc'.result[1].length = length
                    /\ calc'.result[1].bytes = Twice(Twice(Twice(length)))
                    /\ timers'.rethrow = timers.rethrow
              /\ calc'.last[1] = calc'.testValue => unhandledPath]_vars

====
